---- MODULE Spec2Model ----
(***************************************************************************)
(* The flow-diagram editor (NiFiFlowDiagram): its React state, its props,  *)
(* its event handlers and its onChange effect.  Every handler is a         *)
(* function from a component state (a record of the useState cells and the *)
(* props) to the next one; an action applies one handler to the current    *)
(* state.  Handlers are entry points: each carries the guards its own code *)
(* has (readonly, tool, dragState), and may be invoked in any order.       *)
(*                                                                         *)
(* Beside the editor: its two geometry functions applied to drawn inputs,  *)
(* the presentation store (BulletproofStorage over localStorage) and the   *)
(* undo history (useUndoRedo).  Each part has its own specification; the   *)
(* variables of the other parts stay at their initial values in it.        *)
(***************************************************************************)
EXTENDS Integers, Sequences, FiniteSets, TLC

VARIABLES
    nodes,              \* useState<FlowNode[]>(initialNodes)
    connections,        \* useState<Connection[]>(initialConnections)
    selectedNodes,      \* useState<Set<string>>
    selectedConnection, \* useState<string | null>
    tool,               \* useState<'select' | 'connect'>
    dragState,          \* useState<{nodeId, offset, isConnecting, fromPoint?, currentPos?}>
    readonly,           \* prop
    canvas,             \* props width, height
    onChange,           \* prop: TRUE when the host supplied a callback
    initialData,        \* props initialNodes, initialConnections as last supplied
    effectPending,      \* the onChange effect is scheduled (a dependency changed)
    reported,           \* arguments of the last onChange call, <<>> if none yet
    now,                \* Date.now()
    lastOp,             \* the handler that ran last
    call,               \* the last application of a geometry function: arguments and result
    localStorage,       \* window.localStorage: key -> stored string
    outcome,            \* the last operation on the store and what it returned
    history,            \* useUndoRedo: history.current
    currentIndex,       \* useUndoRedo: useState(0), as of the last render
    queuedIndex,        \* useUndoRedo: the value passed to setCurrentIndex, not yet rendered
    maxHistorySize,     \* useUndoRedo: second argument
    returned            \* useUndoRedo: what the last undo() / redo() returned

diagramVars == <<nodes, connections, selectedNodes, selectedConnection, tool, dragState,
                 readonly, canvas, onChange, initialData, effectPending, reported, lastOp>>
geometryVars == <<call>>
storageVars == <<localStorage, outcome>>
undoVars == <<history, currentIndex, queuedIndex, maxHistorySize, returned>>

vars == <<diagramVars, now, geometryVars, storageVars, undoVars>>

----------------------------------------------------------------------------
\* Bounds of the model.
MaxNodes == 2
MaxConns == 1
MaxClock == 1

\* Program constants.
scale == 1
GridPitch == 10
DefaultWidth == 800
DefaultHeight == 600
SpawnX == 50
SpawnY == 50

showGrid == TRUE

Null == <<>>
NodeId(t) == <<"node", t>>
ConnId(t) == <<"conn", t>>

nodeTemplates ==
    [start     |-> [width |-> 80,  height |-> 40, label |-> "Start"],
     process   |-> [width |-> 100, height |-> 50, label |-> "Process"],
     decision  |-> [width |-> 80,  height |-> 80, label |-> "Decision"],
     data      |-> [width |-> 90,  height |-> 60, label |-> "Data"],
     connector |-> [width |-> 40,  height |-> 40, label |-> ""],
     end       |-> [width |-> 80,  height |-> 40, label |-> "End"]]

nodeStyles ==
    [start     |-> [fill |-> "#e8f5e9", stroke |-> "#4caf50", strokeWidth |-> "2", shadow |-> "0 2px 4px rgba(0,0,0,0.1)"],
     process   |-> [fill |-> "#f3f4f6", stroke |-> "#6b7280", strokeWidth |-> "1.5", shadow |-> "0 2px 4px rgba(0,0,0,0.08)"],
     decision  |-> [fill |-> "#fff3cd", stroke |-> "#ffc107", strokeWidth |-> "2", shadow |-> "0 2px 4px rgba(0,0,0,0.1)"],
     data      |-> [fill |-> "#e3f2fd", stroke |-> "#2196f3", strokeWidth |-> "1.5", shadow |-> "0 2px 4px rgba(0,0,0,0.08)"],
     connector |-> [fill |-> "#f5f5f5", stroke |-> "#9e9e9e", strokeWidth |-> "1.5", shadow |-> "0 2px 4px rgba(0,0,0,0.08)"],
     end       |-> [fill |-> "#ffebee", stroke |-> "#f44336", strokeWidth |-> "2", shadow |-> "0 2px 4px rgba(0,0,0,0.1)"]]

\* offset is the fraction num/den along the side (always 1/2 here).
CenterPoint(side) ==
    [id |-> <<side, "center">>, side |-> side, offset |-> [num |-> 1, den |-> 2]]

generateConnectionPoints(type) ==
    IF type = "connector"
    THEN <<CenterPoint("top"), CenterPoint("right"), CenterPoint("bottom"), CenterPoint("left")>>
    ELSE <<CenterPoint("top"), CenterPoint("bottom"), CenterPoint("left"), CenterPoint("right")>>

NewNode(id, type, x, y) ==
    [id |-> id,
     type |-> type,
     position |-> [x |-> x, y |-> y],
     size |-> [width |-> nodeTemplates[type].width * scale,
               height |-> nodeTemplates[type].height * scale],
     label |-> nodeTemplates[type].label,
     style |-> nodeStyles[type],
     connectionPoints |-> generateConnectionPoints(type)]

NewConnection(id, from, to) ==
    [id |-> id, from |-> from, to |-> to, style |-> "solid", color |-> "#6b7280"]

PointRef(nodeId, pointId) == [nodeId |-> nodeId, pointId |-> pointId]

IdleDrag ==
    [nodeId |-> Null, offset |-> [x |-> 0, y |-> 0], isConnecting |-> FALSE,
     fromPoint |-> <<>>, currentPos |-> <<>>]

----------------------------------------------------------------------------
\* Helpers over sequences.
Min(S) == CHOOSE m \in S : \A k \in S : m <= k
Max2(a, b) == IF a >= b THEN a ELSE b
Min2(a, b) == IF a <= b THEN a ELSE b

RECURSIVE SeqFilterIdx(_, _, _)
SeqFilterIdx(seq, keep, i) ==
    IF i > Len(seq) THEN <<>>
    ELSE IF i \in keep THEN <<seq[i]>> \o SeqFilterIdx(seq, keep, i + 1)
                       ELSE SeqFilterIdx(seq, keep, i + 1)

NodeIds(ns) == {ns[i].id : i \in 1..Len(ns)}

\* nodes.find(n => n.id === id): index of the first match, 0 when there is none.
FindNodeById(ns, id) ==
    LET hit == {i \in 1..Len(ns) : ns[i].id = id}
    IN IF hit = {} THEN 0 ELSE Min(hit)

\* Math.round(v / g) * g for integers v and g > 0 (halves round up).
RoundToGrid(v, g) == ((2 * v + g) \div (2 * g)) * g

Inside(node, x, y) ==
    /\ x >= node.position.x
    /\ x <= node.position.x + node.size.width
    /\ y >= node.position.y
    /\ y <= node.position.y + node.size.height

\* The hit test of handleMouseDown: nodes.find(...) returns the first node of the
\* list that contains the point; 0 when none does.
clickedNode(ns, x, y) ==
    LET hit == {i \in 1..Len(ns) : Inside(ns[i], x, y)}
    IN IF hit = {} THEN 0 ELSE Min(hit)

----------------------------------------------------------------------------
\* The component state the handlers read and write.
Cur ==
    [nodes |-> nodes, connections |-> connections, selectedNodes |-> selectedNodes,
     selectedConnection |-> selectedConnection, tool |-> tool, dragState |-> dragState,
     readonly |-> readonly, canvas |-> canvas, onChange |-> onChange,
     initialData |-> initialData, effectPending |-> effectPending, reported |-> reported]

\* setNodes / setConnections with a new array: a dependency of the onChange effect
\* changes identity, so the effect is scheduled for after the render.
setNodes(s, ns) == [s EXCEPT !.nodes = ns, !.effectPending = TRUE]

\* Faulty variant: the connection list is no dependency of the onChange effect.
setConnectionsUnwatched(s, cs) == [s EXCEPT !.connections = cs]

setConnections(s, cs) == [s EXCEPT !.connections = cs, !.effectPending = TRUE]

\* useEffect(() => { if (onChange) onChange(nodes, connections) }, [nodes, connections, onChange])
notifyParent(s) ==
    [s EXCEPT !.effectPending = FALSE,
              !.reported = IF s.onChange
                           THEN <<[nodes |-> s.nodes, connections |-> s.connections]>>
                           ELSE s.reported]

\* Faulty variant: addNode without its readonly check.
addNodeIgnoringReadonly(s, type, x, y, t) ==
    setNodes(s, Append(s.nodes, NewNode(NodeId(t), type, x, y)))

addNode(s, type, x, y, t) ==
    IF s.readonly THEN s
    ELSE setNodes(s, Append(s.nodes, NewNode(NodeId(t), type, x, y)))

toggleSelected(sel, id) == IF id \in sel THEN sel \ {id} ELSE sel \cup {id}

\* Faulty variant: the drag state is updated in place, so a pending connection
\* stays in it.
handleMouseDownKeepingPending(s, x, y, shiftKey) ==
    IF s.readonly THEN s
    ELSE IF s.tool = "select"
    THEN LET i == clickedNode(s.nodes, x, y)
         IN IF i # 0
            THEN [s EXCEPT
                    !.selectedNodes = IF ~shiftKey THEN {s.nodes[i].id}
                                      ELSE toggleSelected(s.selectedNodes, s.nodes[i].id),
                    !.dragState = [s.dragState EXCEPT
                                     !.nodeId = s.nodes[i].id,
                                     !.offset = [x |-> x - s.nodes[i].position.x,
                                                 y |-> y - s.nodes[i].position.y]]]
            ELSE [s EXCEPT !.selectedNodes = {}, !.selectedConnection = Null]
    ELSE s

handleMouseDown(s, x, y, shiftKey) ==
    IF s.readonly THEN s
    ELSE IF s.tool = "select"
    THEN LET i == clickedNode(s.nodes, x, y)
         IN IF i # 0
            THEN [s EXCEPT
                    !.selectedNodes = IF ~shiftKey THEN {s.nodes[i].id}
                                      ELSE toggleSelected(s.selectedNodes, s.nodes[i].id),
                    !.dragState = [IdleDrag EXCEPT
                                     !.nodeId = s.nodes[i].id,
                                     !.offset = [x |-> x - s.nodes[i].position.x,
                                                 y |-> y - s.nodes[i].position.y]]]
            ELSE [s EXCEPT !.selectedNodes = {}, !.selectedConnection = Null]
    ELSE s

\* Faulty variant: the upper limit is dropped.
clampLowerOnly(v, limit) == Max2(0, v)

\* Math.max(0, Math.min(limit, v))
clamp(v, limit) == Max2(0, Min2(limit, v))

\* The position a selected node gets from one mousemove of a drag.
draggedPosition(s, node, x, y) ==
    LET gridSize == IF showGrid THEN GridPitch * scale ELSE 1
        snappedX == RoundToGrid(x, gridSize)
        snappedY == RoundToGrid(y, gridSize)
        g        == FindNodeById(s.nodes, s.dragState.nodeId)
        grabbedX == IF g = 0 THEN 0 ELSE s.nodes[g].position.x
        grabbedY == IF g = 0 THEN 0 ELSE s.nodes[g].position.y
        offsetX  == snappedX - s.dragState.offset.x - grabbedX
        offsetY  == snappedY - s.dragState.offset.y - grabbedY
    IN [x |-> clamp(node.position.x + offsetX, s.canvas.width - node.size.width),
        y |-> clamp(node.position.y + offsetY, s.canvas.height - node.size.height)]

\* Faulty variant: a drag moves every node, selected or not.
handleMouseMoveEveryNode(s, x, y) ==
    IF s.readonly THEN s
    ELSE IF s.dragState.nodeId # Null /\ ~s.dragState.isConnecting
    THEN setNodes(s, [i \in 1..Len(s.nodes) |->
                        [s.nodes[i] EXCEPT !.position = draggedPosition(s, s.nodes[i], x, y)]])
    ELSE IF s.dragState.isConnecting /\ s.dragState.fromPoint # <<>>
    THEN [s EXCEPT !.dragState.currentPos = <<[x |-> x, y |-> y]>>]
    ELSE s

handleMouseMove(s, x, y) ==
    IF s.readonly THEN s
    ELSE IF s.dragState.nodeId # Null /\ ~s.dragState.isConnecting
    THEN setNodes(s, [i \in 1..Len(s.nodes) |->
                        IF s.nodes[i].id \in s.selectedNodes
                        THEN [s.nodes[i] EXCEPT !.position = draggedPosition(s, s.nodes[i], x, y)]
                        ELSE s.nodes[i]])
    ELSE IF s.dragState.isConnecting /\ s.dragState.fromPoint # <<>>
    THEN [s EXCEPT !.dragState.currentPos = <<[x |-> x, y |-> y]>>]
    ELSE s

handleMouseUp(s) == [s EXCEPT !.dragState = IdleDrag]

\* Faulty variant: the target node is not compared with the source node.
canCompleteOnAnyNode(s, nodeId) == s.dragState.fromPoint # <<>>

\* The pending connection may end on nodeId: a source is recorded, on another node.
canComplete(s, nodeId) ==
    s.dragState.fromPoint # <<>> /\ s.dragState.fromPoint[1].nodeId # nodeId

handleConnectionPointClick(s, nodeId, pointId, t) ==
    IF s.readonly THEN s
    ELSE IF s.tool = "connect"
    THEN IF ~s.dragState.isConnecting
         THEN [s EXCEPT !.dragState = [IdleDrag EXCEPT
                                         !.isConnecting = TRUE,
                                         !.fromPoint = <<PointRef(nodeId, pointId)>>]]
         ELSE IF canComplete(s, nodeId)
         THEN [setConnections(s, Append(s.connections,
                   NewConnection(ConnId(t), s.dragState.fromPoint[1], PointRef(nodeId, pointId))))
                 EXCEPT !.dragState = IdleDrag]
         ELSE s
    ELSE s

handleConnectionClick(s, connId) ==
    IF ~s.readonly
    THEN [s EXCEPT !.selectedConnection = connId, !.selectedNodes = {}]
    ELSE s

keptNodes(s) == {i \in 1..Len(s.nodes) : s.nodes[i].id \notin s.selectedNodes}

\* Faulty variant: only the source end of a connection is looked at.
keptConnectionsBySource(s) ==
    {i \in 1..Len(s.connections) : s.connections[i].from.nodeId \notin s.selectedNodes}

keptConnections(s) ==
    {i \in 1..Len(s.connections) :
        /\ s.connections[i].from.nodeId \notin s.selectedNodes
        /\ s.connections[i].to.nodeId \notin s.selectedNodes}

deleteSelectedNodes(s) ==
    IF s.selectedNodes # {}
    THEN [setConnections(setNodes(s, SeqFilterIdx(s.nodes, keptNodes(s), 1)),
                         SeqFilterIdx(s.connections, keptConnections(s), 1))
            EXCEPT !.selectedNodes = {}]
    ELSE s

deleteSelectedConnection(s) ==
    IF s.selectedConnection # Null
    THEN [setConnections(s, SeqFilterIdx(s.connections,
                {i \in 1..Len(s.connections) : s.connections[i].id # s.selectedConnection}, 1))
            EXCEPT !.selectedConnection = Null]
    ELSE s

deleteSelected(s) ==
    IF s.readonly THEN s
    ELSE deleteSelectedConnection(deleteSelectedNodes(s))

setTool(s, t) == [s EXCEPT !.tool = t]

\* Faulty variant: the bottom side is resolved on the top edge.
sidePositionBottomOnTop(node, point) ==
    LET x == node.position.x
        y == node.position.y
        w == node.size.width
        h == node.size.height
        alongW == (w * point.offset.num) \div point.offset.den
        alongH == (h * point.offset.num) \div point.offset.den
    IN CASE point.side = "top"    -> [x |-> x + alongW, y |-> y]
         [] point.side = "right"  -> [x |-> x + w, y |-> y + alongH]
         [] point.side = "bottom" -> [x |-> x + alongW, y |-> y]
         [] point.side = "left"   -> [x |-> x, y |-> y + alongH]

\* The switch over the side of a connection point (width * offset and height *
\* offset are whole numbers for the sizes and offsets used here).
sidePosition(node, point) ==
    LET x == node.position.x
        y == node.position.y
        w == node.size.width
        h == node.size.height
        alongW == (w * point.offset.num) \div point.offset.den
        alongH == (h * point.offset.num) \div point.offset.den
    IN CASE point.side = "top"    -> [x |-> x + alongW, y |-> y]
         [] point.side = "right"  -> [x |-> x + w, y |-> y + alongH]
         [] point.side = "bottom" -> [x |-> x + alongW, y |-> y + h]
         [] point.side = "left"   -> [x |-> x, y |-> y + alongH]

\* Faulty variant: an unknown point id resolves to the origin of the canvas.
getConnectionPointPositionOrOrigin(node, pointId) ==
    LET hit == {i \in 1..Len(node.connectionPoints) : node.connectionPoints[i].id = pointId}
    IN IF hit = {} THEN [x |-> 0, y |-> 0]
       ELSE sidePosition(node, node.connectionPoints[Min(hit)])

\* Absolute position of a connection point; the node's position when the id is unknown.
getConnectionPointPosition(node, pointId) ==
    LET hit == {i \in 1..Len(node.connectionPoints) : node.connectionPoints[i].id = pointId}
    IN IF hit = {} THEN node.position
       ELSE sidePosition(node, node.connectionPoints[Min(hit)])

Abs(v) == IF v < 0 THEN 0 - v ELSE v

\* Lengths of the bezier function are kept in half units, so that |dx| / 2 is a
\* whole number; the scale is given in tenths (8 for 0.8).
\* Twice Math.min(50 * scale, Math.abs(dx) / 2, Math.abs(dy) / 2).
bezierOffsetTwice(from, to, scaleTenths) ==
    Min({10 * scaleTenths, Abs(to.x - from.x), Abs(to.y - from.y)})

\* Faulty variant: the vertical delta is left out of the minimum.
controlPointTwiceIgnoringDy(p, side, from, to, scaleTenths) ==
    LET offset2 == Min({10 * scaleTenths, Abs(to.x - from.x)})
    IN CASE side = "top"    -> [x |-> 2 * p.x, y |-> 2 * p.y - offset2]
         [] side = "right"  -> [x |-> 2 * p.x + offset2, y |-> 2 * p.y]
         [] side = "bottom" -> [x |-> 2 * p.x, y |-> 2 * p.y + offset2]
         [] side = "left"   -> [x |-> 2 * p.x - offset2, y |-> 2 * p.y]
         [] OTHER           -> [x |-> 2 * p.x, y |-> 2 * p.y]

\* The control point of endpoint p on the given side, in half units.
controlPointTwice(p, side, from, to, scaleTenths) ==
    LET offset2 == bezierOffsetTwice(from, to, scaleTenths)
    IN CASE side = "top"    -> [x |-> 2 * p.x, y |-> 2 * p.y - offset2]
         [] side = "right"  -> [x |-> 2 * p.x + offset2, y |-> 2 * p.y]
         [] side = "bottom" -> [x |-> 2 * p.x, y |-> 2 * p.y + offset2]
         [] side = "left"   -> [x |-> 2 * p.x - offset2, y |-> 2 * p.y]
         [] OTHER           -> [x |-> 2 * p.x, y |-> 2 * p.y]

\* The path "M from C cp1, cp2, to" as its four points.
generateBezierPath(from, to, fromSide, toSide, scaleTenths) ==
    [M |-> from,
     cp1Twice |-> controlPointTwice(from, fromSide, from, to, scaleTenths),
     cp2Twice |-> controlPointTwice(to, toSide, from, to, scaleTenths),
     to |-> to]

\* Effects scheduled by a render run before the next event is handled.
flushEffects(s) == IF s.effectPending THEN notifyParent(s) ELSE s

\* A press and release on a connection-point circle: the browser hands the svg a
\* mousedown and a mouseup (both bubble from the circle), then the circle a click.
clickOnConnectionPoint(s, node, pointId, t) ==
    LET at   == getConnectionPointPosition(node, pointId)
        down == flushEffects(handleMouseDown(s, at.x, at.y, FALSE))
        up   == flushEffects(handleMouseUp(down))
    IN handleConnectionPointClick(up, node.id, pointId, t)

\* The connection points are drawn (and can be pressed) only in these states.
connectionPointsShown(s) == ~s.readonly /\ (s.tool = "connect" \/ s.dragState.isConnecting)

----------------------------------------------------------------------------
\* Inputs.
AddTypes == {"start"}
PointerPositions == {<<60, 60>>, <<903, 704>>}
ClickPoints == {<<"right", "center">>, <<"left", "center">>}
DefaultCanvas == [width |-> DefaultWidth, height |-> DefaultHeight]
\* A canvas narrower than the narrowest node the toolbar adds.
NarrowCanvas == [width |-> 70, height |-> DefaultHeight]

EmptyGraph == [nodes |-> <<>>, connections |-> <<>>]

\* start -> process -> end, as a host would hand back a diagram saved earlier.
ChainGraph ==
    [nodes |-> <<NewNode(NodeId(-3), "start", 50, 50),
                 NewNode(NodeId(-2), "process", 300, 50),
                 NewNode(NodeId(-1), "end", 300, 200)>>,
     connections |->
        <<NewConnection(ConnId(-2), PointRef(NodeId(-3), <<"right", "center">>),
                                    PointRef(NodeId(-2), <<"left", "center">>)),
          NewConnection(ConnId(-1), PointRef(NodeId(-2), <<"bottom", "center">>),
                                    PointRef(NodeId(-1), <<"top", "center">>))>>]

InitialGraphs == {EmptyGraph, ChainGraph}

\* The props a diagram is mounted with.
Props(ro, cb, cv, g) == [readonly |-> ro, onChange |-> cb, canvas |-> cv, graph |-> g]

Mounts ==
    {Props(ro, TRUE, DefaultCanvas, g) : ro \in BOOLEAN, g \in InitialGraphs}
    \cup {Props(TRUE, FALSE, DefaultCanvas, ChainGraph),
          Props(FALSE, TRUE, NarrowCanvas, EmptyGraph)}

----------------------------------------------------------------------------
\* Initial values of the parts a specification does not exercise.
NoCall == [fn |-> "none"]
NoOutcome == [op |-> "none"]

GeometryIdle == call = NoCall
StorageIdle == localStorage = <<>> /\ outcome = NoOutcome
UndoIdle ==
    /\ history = <<>>
    /\ currentIndex = 0
    /\ queuedIndex = <<>>
    /\ maxHistorySize = 0
    /\ returned = <<>>

Mount(props) ==
    /\ readonly = props.readonly
    /\ onChange = props.onChange
    /\ canvas = props.canvas
    /\ initialData = props.graph
    /\ nodes = initialData.nodes
    /\ connections = initialData.connections
    /\ selectedNodes = {}
    /\ selectedConnection = Null
    /\ tool = "select"
    /\ dragState = IdleDrag
    /\ effectPending = TRUE
    /\ reported = <<>>
    /\ now = 0
    /\ lastOp = "mount"
    /\ GeometryIdle /\ StorageIdle /\ UndoIdle

Init == \E props \in Mounts : Mount(props)

Apply(s, op) ==
    /\ nodes' = s.nodes
    /\ connections' = s.connections
    /\ selectedNodes' = s.selectedNodes
    /\ selectedConnection' = s.selectedConnection
    /\ tool' = s.tool
    /\ dragState' = s.dragState
    /\ readonly' = s.readonly
    /\ canvas' = s.canvas
    /\ onChange' = s.onChange
    /\ initialData' = s.initialData
    /\ effectPending' = s.effectPending
    /\ reported' = s.reported
    /\ lastOp' = op
    /\ UNCHANGED <<now, geometryVars, storageVars, undoVars>>

\* An event is handled once the effects of the last render have run.
Ready == ~effectPending

RunEffect ==
    /\ effectPending
    /\ Apply(notifyParent(Cur), lastOp)

AddNode ==
    /\ Ready
    /\ Len(nodes) < MaxNodes
    /\ \E type \in AddTypes : Apply(addNode(Cur, type, SpawnX, SpawnY, now), "addNode")

SetTool ==
    /\ Ready
    /\ \E t \in {"select", "connect"} : Apply(setTool(Cur, t), "setTool")

MouseDownAt(p, shiftKey) == Apply(handleMouseDown(Cur, p[1], p[2], shiftKey), "mouseDown")

MouseDown ==
    /\ Ready
    /\ \E p \in PointerPositions, shiftKey \in BOOLEAN : MouseDownAt(p, shiftKey)

MouseMoveTo(p) == Apply(handleMouseMove(Cur, p[1], p[2]), "mouseMove")

MouseMove ==
    /\ Ready
    /\ \E p \in PointerPositions : MouseMoveTo(p)

MouseUp ==
    /\ Ready
    /\ Apply(handleMouseUp(Cur), "mouseUp")

MouseLeave ==
    /\ Ready
    /\ Apply(handleMouseUp(Cur), "mouseLeave")

\* The connection list grows only up to the bound.
WithinBound(s) == Len(s.connections) <= Max2(MaxConns, Len(connections))

\* A click event delivered to the circle of point pointId of the i-th node.
ConnectionPointClickAt(i, pointId) ==
    LET s == handleConnectionPointClick(Cur, nodes[i].id, pointId, now)
    IN WithinBound(s) /\ Apply(s, "pointClick")

ConnectionPointClick ==
    /\ Ready
    /\ \E i \in 1..Len(nodes), pointId \in ClickPoints : ConnectionPointClickAt(i, pointId)

\* A press and release of the mouse on that circle, with the connect tool.
PressConnectionPointAt(i, pointId) ==
    LET s == clickOnConnectionPoint(Cur, nodes[i], pointId, now)
    IN WithinBound(s) /\ Apply(s, "pressPoint")

PressConnectionPoint ==
    /\ Ready
    /\ connectionPointsShown(Cur)
    /\ tool = "connect"
    /\ \E i \in 1..Len(nodes), pointId \in ClickPoints : PressConnectionPointAt(i, pointId)

ConnectionClick ==
    /\ Ready
    /\ \E i \in 1..Len(connections) :
          Apply(handleConnectionClick(Cur, connections[i].id), "connectionClick")

DeleteKey ==
    /\ Ready
    /\ Apply(deleteSelected(Cur), "deleteSelected")

\* The host renders the mounted diagram again with other initial arrays; useState
\* reads its argument on the first render only.  The callback the host passes is
\* the one it passed before or a new function; a new one is a changed dependency of
\* the onChange effect.
HostSuppliesInitialData ==
    /\ Ready
    /\ \E g \in InitialGraphs, newCallback \in BOOLEAN :
          Apply([Cur EXCEPT !.initialData = g,
                            !.effectPending = newCallback /\ onChange], "newInitialData")

Tick ==
    /\ now < MaxClock
    /\ now' = now + 1
    /\ UNCHANGED <<diagramVars, geometryVars, storageVars, undoVars>>

Next ==
    \/ RunEffect
    \/ AddNode
    \/ SetTool
    \/ MouseDown
    \/ MouseMove
    \/ MouseUp
    \/ MouseLeave
    \/ ConnectionPointClick
    \/ PressConnectionPoint
    \/ ConnectionClick
    \/ DeleteKey
    \/ Tick

Spec == Init /\ [][Next]_vars

\* The read-only diagram: the toolbar and the connection-point circles are not
\* drawn, so no press on a circle occurs; every other handler can still be invoked.
InitReadonly == \E props \in Mounts : props.readonly /\ Mount(props)

NextReadonly ==
    \/ RunEffect
    \/ AddNode
    \/ SetTool
    \/ MouseDown
    \/ MouseMove
    \/ MouseUp
    \/ MouseLeave
    \/ ConnectionPointClick
    \/ ConnectionClick
    \/ DeleteKey
    \/ Tick

SpecReadonly == InitReadonly /\ [][NextReadonly]_vars

\* The diagram under a host that hands it new initial arrays while it is mounted.
InitHost == Mount(Props(FALSE, TRUE, DefaultCanvas, EmptyGraph))

NextHost == Next \/ HostSuppliesInitialData

SpecHost == InitHost /\ [][NextHost]_vars

\* A second instance is constructed with the arrays the first one reported last,
\* and receives no input: only its onChange effect runs.
\* Faulty variant: the connection state starts empty whatever the props say.
MountedWithoutConnections(props) ==
    [nodes |-> props.graph.nodes, connections |-> <<>>, selectedNodes |-> {},
     selectedConnection |-> Null, tool |-> "select", dragState |-> IdleDrag,
     readonly |-> props.readonly, canvas |-> props.canvas, onChange |-> props.onChange,
     initialData |-> props.graph, effectPending |-> TRUE, reported |-> <<>>]

\* The component state after the first render with these props.
Mounted(props) ==
    [nodes |-> props.graph.nodes, connections |-> props.graph.connections,
     selectedNodes |-> {}, selectedConnection |-> Null, tool |-> "select",
     dragState |-> IdleDrag,
     readonly |-> props.readonly, canvas |-> props.canvas, onChange |-> props.onChange,
     initialData |-> props.graph, effectPending |-> TRUE, reported |-> <<>>]

\* The instance on screen is the second one.
SecondInstance == lastOp = "remount"

Remount ==
    /\ ~SecondInstance
    /\ reported # <<>>
    /\ \E ro \in BOOLEAN :
          Apply(Mounted(Props(ro, onChange, canvas, reported[1])), "remount")

InitRoundTrip == Mount(Props(FALSE, TRUE, DefaultCanvas, EmptyGraph))

NextRoundTrip ==
    \/ RunEffect
    \/ ~SecondInstance /\ AddNode
    \/ ~SecondInstance /\ SetTool
    \/ ~SecondInstance /\ MouseDown
    \/ ~SecondInstance /\ MouseMove
    \/ ~SecondInstance /\ MouseUp
    \/ ~SecondInstance /\ MouseLeave
    \/ ~SecondInstance /\ ConnectionPointClick
    \/ ~SecondInstance /\ PressConnectionPoint
    \/ ~SecondInstance /\ ConnectionClick
    \/ ~SecondInstance /\ DeleteKey
    \/ Tick
    \/ Remount

SpecRoundTrip == InitRoundTrip /\ [][NextRoundTrip]_vars

----------------------------------------------------------------------------
\* The parts of the state a specification of another part leaves alone.
DiagramIdle ==
    /\ nodes = <<>> /\ connections = <<>>
    /\ selectedNodes = {} /\ selectedConnection = Null
    /\ tool = "select" /\ dragState = IdleDrag
    /\ readonly = TRUE /\ canvas = DefaultCanvas /\ onChange = FALSE
    /\ initialData = EmptyGraph
    /\ effectPending = FALSE /\ reported = <<>>
    /\ lastOp = "none"

\* The two geometry functions applied to drawn arguments.
Sides == {"top", "right", "bottom", "left"}
AnchorPositions == {[x |-> 10, y |-> 20], [x |-> 0, y |-> 0], [x |-> 300, y |-> 50]}
AnchorSizes == {[width |-> 100, height |-> 40], [width |-> 80, height |-> 80]}
AnchorOffsets == {[num |-> 1, den |-> 2], [num |-> 1, den |-> 4],
                  [num |-> 0, den |-> 1], [num |-> 1, den |-> 1]}
AnchorPointIds == {<<side, "p">> : side \in Sides} \cup {<<"nonexistent">>}
BezierPoints == {[x |-> 0, y |-> 0], [x |-> 200, y |-> 0], [x |-> 20, y |-> 0],
                 [x |-> 200, y |-> 200], [x |-> 20, y |-> 200], [x |-> 7, y |-> 90]}
ScalesInTenths == {5, 8, 10, 20}

\* A node with one connection point on each side, all at the same offset.
AnchorNode(position, size, offset) ==
    [id |-> NodeId(0), type |-> "process", position |-> position, size |-> size,
     label |-> "Process", style |-> nodeStyles["process"],
     connectionPoints |->
        <<[id |-> <<"top", "p">>, side |-> "top", offset |-> offset],
          [id |-> <<"bottom", "p">>, side |-> "bottom", offset |-> offset],
          [id |-> <<"left", "p">>, side |-> "left", offset |-> offset],
          [id |-> <<"right", "p">>, side |-> "right", offset |-> offset]>>]

\* The arguments of one application, drawn at the start.
AnchorArguments ==
    {[fn |-> "getConnectionPointPosition", applied |-> FALSE,
      node |-> AnchorNode(position, size, offset), pointId |-> pointId] :
        position \in AnchorPositions, size \in AnchorSizes, offset \in AnchorOffsets,
        pointId \in AnchorPointIds}

PathArguments ==
    {[fn |-> "generateBezierPath", applied |-> FALSE, from |-> from, to |-> to,
      fromSide |-> fromSide, toSide |-> toSide, scaleTenths |-> scaleTenths] :
        from \in BezierPoints, to \in BezierPoints, fromSide \in Sides, toSide \in Sides,
        scaleTenths \in ScalesInTenths}

InitGeometry ==
    /\ DiagramIdle /\ now = 0
    /\ call \in AnchorArguments \cup PathArguments
    /\ StorageIdle /\ UndoIdle

ResolveAnchor ==
    /\ call.fn = "getConnectionPointPosition" /\ ~call.applied
    /\ call' = [fn |-> call.fn, applied |-> TRUE, node |-> call.node, pointId |-> call.pointId,
                result |-> getConnectionPointPosition(call.node, call.pointId)]
    /\ UNCHANGED <<diagramVars, now, storageVars, undoVars>>

DrawPath ==
    /\ call.fn = "generateBezierPath" /\ ~call.applied
    /\ call' = [fn |-> call.fn, applied |-> TRUE, from |-> call.from, to |-> call.to,
                fromSide |-> call.fromSide, toSide |-> call.toSide,
                scaleTenths |-> call.scaleTenths,
                result |-> generateBezierPath(call.from, call.to, call.fromSide,
                                              call.toSide, call.scaleTenths)]
    /\ UNCHANGED <<diagramVars, now, storageVars, undoVars>>

NextGeometry == ResolveAnchor \/ DrawPath

SpecGeometry == InitGeometry /\ [][NextGeometry]_vars

----------------------------------------------------------------------------
\* The presentation store: BulletproofStorage over window.localStorage.
\* A presentation id is the sequence of the pieces of the id string between its
\* underscores; a key is the kind its prefix stands for, the id and, for a backup,
\* the timestamp that ends the key.
MAX_BACKUPS == 10

MainKey(id) == [kind |-> "slider_presentation_", id |-> id, timestamp |-> 0]
BackupKey(id, t) == [kind |-> "slider_backup_", id |-> id, timestamp |-> t]
AUTOSAVE_KEY == [kind |-> "slider_autosave", id |-> <<>>, timestamp |-> 0]
METADATA_KEY == [kind |-> "slider_metadata", id |-> <<>>, timestamp |-> 0]

\* key.startsWith(`${BACKUP_PREFIX}${presentationId}_`): the backup keys of the id,
\* and those of every id that continues it after an underscore.
startsWithBackupPrefix(key, presentationId) ==
    /\ key.kind = "slider_backup_"
    /\ Len(key.id) >= Len(presentationId)
    /\ SubSeq(key.id, 1, Len(presentationId)) = presentationId

getItem(storage, key) == IF key \in DOMAIN storage THEN <<storage[key]>> ELSE <<>>
setItem(storage, key, value) ==
    [k \in DOMAIN storage \cup {key} |-> IF k = key THEN value ELSE storage[k]]
removeItems(storage, keys) == [k \in DOMAIN storage \ keys |-> storage[k]]

\* A stored string: the JSON text of a value, or text that JSON.parse rejects.
JSONstringify(value) == [parses |-> TRUE, value |-> value]
CorruptText == [parses |-> FALSE, value |-> <<>>]

\* The characters of JSON.stringify(data, null, 2) in which the presentations of
\* the model differ: the content of the first element.  The rest of the text is
\* the same for all of them, so two of them have equal hashes exactly when these
\* characters have.
dataString(data) == data.slides[1].elements[1].content

\* hash = ((hash << 5) - hash) + char, over texts short enough that the 32-bit
\* truncation (hash & hash) is never reached.
RECURSIVE hashFrom(_, _, _)
hashFrom(hash, text, i) ==
    IF i > Len(text) THEN hash
    ELSE hashFrom(31 * hash + text[i], text, i + 1)

\* Math.abs(hash).toString(16), kept as the number.
calculateChecksum(text) == Abs(hashFrom(0, text, 1))

validatePresentationData(data) ==
    /\ data.id # <<>> /\ data.title # "" 
    /\ data.theme # "" /\ data.settings # ""
    /\ \A i \in 1..Len(data.slides) :
          /\ data.slides[i].id # ""
          /\ \A j \in 1..Len(data.slides[i].elements) :
                /\ data.slides[i].elements[j].id # ""
                /\ data.slides[i].elements[j].type # ""

\* Faulty variant: old backups are never removed.
cleanOldBackupsNever(storage, presentationId) == {storage}

\* The possible stores after cleanOldBackups: when more than MAX_BACKUPS keys match,
\* the oldest are removed; keys with equal timestamps are in no defined order.
cleanOldBackups(storage, presentationId) ==
    LET backupKeys == {k \in DOMAIN storage : startsWithBackupPrefix(k, presentationId)}
        excess == Cardinality(backupKeys) - MAX_BACKUPS
    IN IF excess <= 0 THEN {storage}
       ELSE {removeItems(storage, toRemove) :
                toRemove \in {R \in SUBSET backupKeys :
                                /\ Cardinality(R) = excess
                                /\ \A r \in R, k \in backupKeys \ R :
                                      r.timestamp <= k.timestamp}}

updateMetadataRegistry(storage, metadata) ==
    LET existing == getItem(storage, METADATA_KEY)
        registry == IF existing = <<>> THEN <<>> ELSE existing[1].value
        ids == DOMAIN registry \cup {metadata.presentationId}
    IN setItem(storage, METADATA_KEY,
               JSONstringify([id \in ids |-> IF id = metadata.presentationId
                                             THEN metadata ELSE registry[id]]))

\* The possible pairs (store, returned value) of savePresentation at time t.
savePresentation(storage, presentationData, isAutoSave, t) ==
    IF ~validatePresentationData(presentationData)
    THEN {[storage |-> storage,
           result |-> [success |-> FALSE, error |-> "Invalid presentation data structure"]]}
    ELSE
      LET metadata == [version |-> "2.0", timestamp |-> t,
                       checksum |-> calculateChecksum(dataString(presentationData)),
                       presentationId |-> presentationData.id, saveIndex |-> t]
          saveData == [data |-> presentationData, metadata |-> metadata]
          saveKey == IF isAutoSave THEN AUTOSAVE_KEY ELSE MainKey(presentationData.id)
          existingData == getItem(storage, saveKey)
          backupCreated == existingData # <<>> /\ ~isAutoSave
          backedUp == IF backupCreated
                      THEN cleanOldBackups(
                             setItem(storage, BackupKey(presentationData.id, t), existingData[1]),
                             presentationData.id)
                      ELSE {storage}
      IN {[storage |-> LET saved == setItem(s, saveKey, JSONstringify(saveData))
                       IN IF isAutoSave THEN saved ELSE updateMetadataRegistry(saved, metadata),
           result |-> [success |-> TRUE, backupCreated |-> backupCreated]] : s \in backedUp}

\* A backup the recovery accepts: it parses and its data has the structure.
usableBackup(storage, key) ==
    /\ storage[key].parses
    /\ validatePresentationData(storage[key].value.data)

\* The possible results of recoverFromBackup: the newest usable backup among the
\* matching keys; keys with equal timestamps are tried in no defined order.
recoverFromBackup(storage, presentationId) ==
    LET backupKeys == {k \in DOMAIN storage : startsWithBackupPrefix(k, presentationId)}
        usable == {k \in backupKeys : usableBackup(storage, k)}
    IN IF backupKeys = {}
       THEN {[success |-> FALSE, error |-> "No backups available for recovery"]}
       ELSE IF usable = {}
       THEN {[success |-> FALSE, error |-> "All backups are corrupted"]}
       ELSE {[success |-> TRUE, data |-> storage[k].value.data] :
                k \in {u \in usable : \A v \in usable : v.timestamp <= u.timestamp}}

\* loadPresentation(presentationId), or loadPresentation() when noId.
loadPresentation(storage, presentationId, noId) ==
    LET loadKey == IF noId THEN AUTOSAVE_KEY ELSE MainKey(presentationId)
        savedString == getItem(storage, loadKey)
        recovered == IF noId THEN {}
                     ELSE {[success |-> TRUE, data |-> r.data, recovered |-> TRUE] :
                             r \in {q \in recoverFromBackup(storage, presentationId) : q.success}}
    IN IF savedString = <<>>
       THEN {[success |-> FALSE, error |-> "No saved presentation found"]}
       ELSE IF ~savedString[1].parses
       THEN IF recovered # {} THEN recovered
            ELSE {[success |-> FALSE, error |-> "JSON.parse: unexpected token"]}
       ELSE LET savedData == savedString[1].value
            IN IF calculateChecksum(dataString(savedData.data)) # savedData.metadata.checksum
               THEN IF recovered # {} THEN recovered
                    ELSE {[success |-> FALSE,
                           error |-> "Data corruption detected and recovery failed"]}
               ELSE IF ~validatePresentationData(savedData.data)
               THEN {[success |-> FALSE, error |-> "Invalid presentation structure"]}
               ELSE {[success |-> TRUE, data |-> savedData.data]}

----------------------------------------------------------------------------
\* Inputs of the store.
MaxStoreClock == 1
MaxBackupClock == 11
MaxBurstClock == 1

DeckId == <<"deck">>
CopyId == <<"deck", "copy">>
\* The ids of the backup run; the corruption runs use the first only.
BackupIds == {DeckId, CopyId}
StoreIds == {DeckId}

\* Element contents as character codes: "Aa", "BB" (same hash as "Aa") and "T".
Contents == {<<65, 97>>, <<66, 66>>, <<84>>}
SavedContents == {<<65, 97>>}

Presentation(id, title, content) ==
    [id |-> id, title |-> title,
     slides |-> <<[id |-> "slide-1",
                   elements |-> <<[id |-> "element-1", type |-> "text", x |-> 0, y |-> 0,
                                   width |-> 200, height |-> 100, content |-> content]>>]>>,
     theme |-> "minimal", settings |-> "default"]

\* Presentations handed to savePresentation; the one without a title is rejected.
StorePresentations ==
    {Presentation(id, "Deck", content) : id \in StoreIds, content \in SavedContents}
    \cup {Presentation(DeckId, "", <<65, 97>>)}

InitStorage ==
    /\ DiagramIdle /\ now = 0
    /\ GeometryIdle /\ StorageIdle /\ UndoIdle

SavePresentationOf(p, isAutoSave) ==
    /\ \E r \in savePresentation(localStorage, p, isAutoSave, now) :
          /\ localStorage' = r.storage
          /\ outcome' = [op |-> "savePresentation", id |-> p.id, isAutoSave |-> isAutoSave,
                         result |-> r.result]
    /\ UNCHANGED <<diagramVars, geometryVars, undoVars>>

SavePresentation ==
    /\ \E p \in StorePresentations, isAutoSave \in BOOLEAN : SavePresentationOf(p, isAutoSave)
    /\ UNCHANGED now

LoadPresentationOf(id) ==
    /\ \E r \in loadPresentation(localStorage, id, FALSE) :
          outcome' = [op |-> "loadPresentation", id |-> id, result |-> r]
    /\ UNCHANGED <<localStorage, now, diagramVars, geometryVars, undoVars>>

LoadPresentation == \E id \in StoreIds : LoadPresentationOf(id)

LoadAutoSave ==
    /\ \E r \in loadPresentation(localStorage, <<>>, TRUE) :
          outcome' = [op |-> "loadPresentation", id |-> <<>>, result |-> r]
    /\ UNCHANGED <<localStorage, now, diagramVars, geometryVars, undoVars>>

\* Another script overwrites the main record of a saved presentation with text
\* that is no JSON.
CorruptMainRecord ==
    /\ \E id \in StoreIds :
          /\ MainKey(id) \in DOMAIN localStorage
          /\ localStorage' = setItem(localStorage, MainKey(id), CorruptText)
          /\ outcome' = [op |-> "corrupt", id |-> id]
    /\ UNCHANGED <<now, diagramVars, geometryVars, undoVars>>

\* Another script changes the content of the first element in the main record and
\* leaves the structure and the metadata (the checksum with it) as they are.
TamperMainRecord ==
    /\ \E id \in StoreIds, content \in Contents :
          /\ MainKey(id) \in DOMAIN localStorage
          /\ localStorage[MainKey(id)].parses
          /\ LET saved == localStorage[MainKey(id)].value
             IN /\ saved.data.slides[1].elements[1].content # content
                /\ localStorage' = setItem(localStorage, MainKey(id),
                       JSONstringify([saved EXCEPT
                           !.data.slides[1].elements[1].content = content]))
          /\ outcome' = [op |-> "tamper", id |-> id]
    /\ UNCHANGED <<now, diagramVars, geometryVars, undoVars>>

TickStore ==
    /\ now < MaxStoreClock
    /\ now' = now + 1
    /\ UNCHANGED <<diagramVars, geometryVars, storageVars, undoVars>>

NextStorage ==
    \/ SavePresentation
    \/ LoadPresentation
    \/ LoadAutoSave
    \/ CorruptMainRecord
    \/ TamperMainRecord
    \/ TickStore

SpecStorage == InitStorage /\ [][NextStorage]_vars

\* Manual saves only, over enough milliseconds for more than MAX_BACKUPS backups.
\* The next save comes in a later millisecond, or, early on, in the same one.
BackupPresentations == {Presentation(id, "Deck", <<65, 97>>) : id \in BackupIds}

SaveAndWait ==
    /\ now < MaxBackupClock
    /\ \E p \in BackupPresentations :
          /\ p.id = CopyId => now <= MaxBurstClock
          /\ SavePresentationOf(p, FALSE)
    /\ now' = now + 1

SaveAtOnce ==
    /\ now <= MaxBurstClock
    /\ \E p \in BackupPresentations : SavePresentationOf(p, FALSE)
    /\ UNCHANGED now

Wait ==
    /\ now < MaxBackupClock
    /\ now' = now + 1
    /\ UNCHANGED <<diagramVars, geometryVars, storageVars, undoVars>>

NextBackups == SaveAndWait \/ SaveAtOnce \/ Wait

SpecBackups == InitStorage /\ [][NextBackups]_vars

----------------------------------------------------------------------------
\* The undo history: useUndoRedo.  The callbacks read the currentIndex of the
\* render they were created in; setCurrentIndex queues the new value, which the
\* next render commits.  history.current is a ref and changes at once.
Hook ==
    [history |-> history, currentIndex |-> currentIndex, queuedIndex |-> queuedIndex,
     maxHistorySize |-> maxHistorySize, returned |-> returned]

setCurrentIndex(h, index) == [h EXCEPT !.queuedIndex = <<index>>]

\* JSON.parse(JSON.stringify(state)): a Date comes back as a string.
deepClone(state) ==
    [state EXCEPT !.updatedAt = [type |-> "string", at |-> state.updatedAt.at]]

HistoryState(state, t, action) == [state |-> state, timestamp |-> t, action |-> action]

\* history.current.slice(-maxHistorySize)
lastEntries(entries, count) ==
    IF count = 0 \/ Len(entries) <= count THEN entries
    ELSE SubSeq(entries, Len(entries) - count + 1, Len(entries))

\* Faulty variant: the history is never cut to maxHistorySize.
pushStateUnlimited(h, newState, action, t) ==
    LET kept == SubSeq(h.history, 1, Min2(h.currentIndex + 1, Len(h.history)))
        pushed == Append(kept, HistoryState(deepClone(newState), t, action))
    IN setCurrentIndex([h EXCEPT !.history = pushed], Len(pushed) - 1)

\* Faulty variant: the entries after the current index are kept.
pushStateKeepingRedo(h, newState, action, t) ==
    LET pushed == Append(h.history, HistoryState(deepClone(newState), t, action))
    IN IF Len(pushed) > h.maxHistorySize
       THEN setCurrentIndex([h EXCEPT !.history = lastEntries(pushed, h.maxHistorySize)],
                            h.maxHistorySize - 1)
       ELSE setCurrentIndex([h EXCEPT !.history = pushed], Len(pushed) - 1)

pushState(h, newState, action, t) ==
    LET kept == SubSeq(h.history, 1, Min2(h.currentIndex + 1, Len(h.history)))
        pushed == Append(kept, HistoryState(deepClone(newState), t, action))
    IN IF Len(pushed) > h.maxHistorySize
       THEN setCurrentIndex([h EXCEPT !.history = lastEntries(pushed, h.maxHistorySize)],
                            h.maxHistorySize - 1)
       ELSE setCurrentIndex([h EXCEPT !.history = pushed], Len(pushed) - 1)

\* What undo() and redo() return: <<entry>>, or <<>> for null.
undo(h) ==
    IF h.currentIndex > 0
    THEN [setCurrentIndex(h, h.currentIndex - 1)
            EXCEPT !.returned = [by |-> "undo", value |-> <<h.history[h.currentIndex]>>]]
    ELSE [h EXCEPT !.returned = [by |-> "undo", value |-> <<>>]]

redo(h) ==
    IF h.currentIndex < Len(h.history) - 1
    THEN [setCurrentIndex(h, h.currentIndex + 1)
            EXCEPT !.returned = [by |-> "redo", value |-> <<h.history[h.currentIndex + 2]>>]]
    ELSE [h EXCEPT !.returned = [by |-> "redo", value |-> <<>>]]

canUndo == currentIndex > 0
canRedo == currentIndex < Len(history) - 1

\* Inputs of the hook: the host's limit of 50 with one state to push, and a short
\* limit with two.
HostHistorySize == 50
ShortHistorySize == 3
HistorySizes == {HostHistorySize, ShortHistorySize}

Slides(count, dateType) == [slides |-> count, updatedAt |-> [type |-> dateType, at |-> 0]]
PushableStates ==
    IF maxHistorySize = ShortHistorySize
    THEN {Slides(1, "Date"), Slides(2, "Date")}
    ELSE {Slides(1, "Date")}

InitUndo ==
    /\ DiagramIdle /\ now = 0
    /\ GeometryIdle /\ StorageIdle
    /\ maxHistorySize \in HistorySizes
    /\ history = <<HistoryState(Slides(1, "Date"), now, "Initial state")>>
    /\ currentIndex = 0
    /\ queuedIndex = <<>>
    /\ returned = [by |-> "none", value |-> <<>>]

ApplyHook(h) ==
    /\ history' = h.history
    /\ currentIndex' = h.currentIndex
    /\ queuedIndex' = h.queuedIndex
    /\ maxHistorySize' = h.maxHistorySize
    /\ returned' = h.returned
    /\ UNCHANGED <<diagramVars, now, geometryVars, storageVars>>

\* The hook is mounted: its history holds at least the initial entry.
HookMounted == history # <<>>

PushStateOf(newState) == ApplyHook(pushState(Hook, newState, "Update presentation", now))

PushState ==
    /\ HookMounted
    /\ \E newState \in PushableStates : PushStateOf(newState)

Undo ==
    /\ HookMounted
    /\ ApplyHook(undo(Hook))

Redo ==
    /\ HookMounted
    /\ ApplyHook(redo(Hook))

\* The render that follows a setCurrentIndex.
Render ==
    /\ queuedIndex # <<>>
    /\ ApplyHook([Hook EXCEPT !.currentIndex = queuedIndex[1], !.queuedIndex = <<>>])

NextUndo == PushState \/ Undo \/ Redo \/ Render

SpecUndo == InitUndo /\ [][NextUndo]_vars

----------------------------------------------------------------------------
\* Vocabulary of the properties.
Max(S) == CHOOSE m \in S : \A k \in S : m >= k
Pending == dragState.isConnecting /\ dragState.fromPoint # <<>>
Dragging == dragState.nodeId # Null /\ ~dragState.isConnecting
LastConnection(cs) == cs[Len(cs)]
HitBy(p) == {i \in 1..Len(nodes) : Inside(nodes[i], p[1], p[2])}
References(c, ids) == c.from.nodeId \in ids \/ c.to.nodeId \in ids

\* C1: with the connect tool and no pending source, a press (mousedown, mouseup,
\* click) on a point of node A records A's point as the pending source, and a press
\* on a point of another node B then appends exactly one connection from A's point
\* to B's point, solid and #6b7280, and leaves no pending source.
C1_TwoPressesConnect ==
    [][\A j \in 1..Len(nodes), q \in ClickPoints :
          (/\ lastOp' = "pressPoint"
           /\ Ready /\ ~readonly /\ tool = "connect"
           /\ PressConnectionPointAt(j, q))
          => /\ ~dragState.isConnecting
                => dragState'.isConnecting
                   /\ dragState'.fromPoint = <<PointRef(nodes[j].id, q)>>
             /\ (Pending /\ lastOp = "pressPoint" /\ dragState.fromPoint[1].nodeId # nodes[j].id)
                => /\ Len(connections') = Len(connections) + 1
                   /\ SubSeq(connections', 1, Len(connections)) = connections
                   /\ LastConnection(connections').from = dragState.fromPoint[1]
                   /\ LastConnection(connections').to = PointRef(nodes[j].id, q)
                   /\ LastConnection(connections').style = "solid"
                   /\ LastConnection(connections').color = "#6b7280"
                   /\ ~dragState'.isConnecting]_vars

\* C2: every connection of the list starts and ends on a node of the node list.
C2_NoDanglingConnection ==
    \A i \in 1..Len(connections) :
        /\ connections[i].from.nodeId \in NodeIds(nodes)
        /\ connections[i].to.nodeId \in NodeIds(nodes)

\* C3 as claimed: a delete with a non-empty node selection S leaves no node of S, no
\* connection touching S, and keeps every connection that touches no node of S.
C3_DeleteKeepsAllUntouched ==
    [][(lastOp' = "deleteSelected" /\ ~readonly /\ selectedNodes # {} /\ DeleteKey)
          => /\ NodeIds(nodes') \cap selectedNodes = {}
             /\ \A i \in 1..Len(connections') : ~References(connections'[i], selectedNodes)
             /\ connections' = SeqFilterIdx(connections,
                    {i \in 1..Len(connections) : ~References(connections[i], selectedNodes)}, 1)]_vars

\* C3 amended: a delete with a non-empty node selection S leaves no node of S and no
\* connection touching S, keeps every other node, and keeps every connection that
\* touches no node of S except those carrying the id of the selected connection,
\* which the same delete removes.
C3_DeleteCascades ==
    [][(lastOp' = "deleteSelected" /\ ~readonly /\ selectedNodes # {} /\ DeleteKey)
          => /\ NodeIds(nodes') \cap selectedNodes = {}
             /\ nodes' = SeqFilterIdx(nodes,
                    {i \in 1..Len(nodes) : nodes[i].id \notin selectedNodes}, 1)
             /\ \A i \in 1..Len(connections') : ~References(connections'[i], selectedNodes)
             /\ connections' = SeqFilterIdx(connections,
                    {i \in 1..Len(connections) :
                        /\ ~References(connections[i], selectedNodes)
                        /\ connections[i].id # selectedConnection}, 1)]_vars

\* C3 witness: the start node of the chain was deleted; the connection between the
\* two other nodes is still there, the one from the start node is gone.
C3_Witness ==
    /\ lastOp = "deleteSelected"
    /\ NodeIds(nodes) = {NodeId(-2), NodeId(-1)}
    /\ Len(connections) = 1
    /\ connections[1].id = ConnId(-1)

\* C4: a click or press on a point of the node that holds the pending source leaves
\* the connection list as it was, and no step appends a connection whose two ends
\* are on the same node id.
C4_NoSelfLoop ==
    [][/\ \A i \in 1..Len(nodes), q \in ClickPoints :
            (/\ lastOp' \in {"pointClick", "pressPoint"}
             /\ Ready /\ Pending /\ dragState.fromPoint[1].nodeId = nodes[i].id
             /\ (ConnectionPointClickAt(i, q) \/ PressConnectionPointAt(i, q)))
            => connections' = connections
       /\ Len(connections') > Len(connections)
            => LastConnection(connections').from.nodeId # LastConnection(connections').to.nodeId]_vars

\* C4 witness: a click on a connection point came while a source was pending and the
\* preview had followed the pointer, and the source is still pending.
C4_Witness ==
    /\ lastOp = "pointClick"
    /\ Pending
    /\ dragState.currentPos # <<>>

\* C5: a read-only diagram keeps the node list and the connection list it was
\* mounted with.
C5_ReadonlyKeepsGraph ==
    readonly => nodes = initialData.nodes /\ connections = initialData.connections

\* C5 witness: Delete was pressed on a read-only diagram that shows the chain.
C5_Witness ==
    /\ readonly
    /\ lastOp = "deleteSelected"
    /\ nodes = ChainGraph.nodes

\* C6: a read-only diagram never calls onChange.
C6_ReadonlyNeverNotifies == (readonly /\ onChange) => reported = <<>>

\* C7: with readonly off and a callback supplied, a step that changes the node list
\* or the connection list schedules the onChange effect, no handler runs before the
\* effect has run, and the call reports the complete lists as they then stand.
C7_ChangesAreReported ==
    [][/\ (~readonly /\ onChange /\ (nodes' # nodes \/ connections' # connections))
            => effectPending'
       /\ effectPending => nodes' = nodes /\ connections' = connections
       /\ (onChange /\ effectPending /\ ~effectPending')
            => reported' = <<[nodes |-> nodes', connections |-> connections']>>]_vars

\* C7 witness: a connection was completed and reported together with its two nodes.
C7_Witness ==
    /\ ~readonly /\ onChange /\ ~effectPending
    /\ lastOp = "pointClick"
    /\ Len(connections) = 1 /\ Len(nodes) = 2
    /\ reported = <<[nodes |-> nodes, connections |-> connections]>>

\* C8: once the host has supplied new initial arrays, the node list and the
\* connection list are those arrays.
C8_NewInitialDataReplaces ==
    lastOp = "newInitialData"
        => nodes = initialData.nodes /\ connections = initialData.connections

InsideCanvas(node) ==
    /\ 0 <= node.position.x /\ node.position.x <= canvas.width - node.size.width
    /\ 0 <= node.position.y /\ node.position.y <= canvas.height - node.size.height

\* C9 as claimed: after a mousemove of a drag every selected node lies inside the
\* canvas.
C9_DraggedNodesInsideCanvas ==
    [][\A p \in PointerPositions :
          (lastOp' = "mouseMove" /\ Ready /\ ~readonly /\ Dragging /\ MouseMoveTo(p))
          => \A i \in 1..Len(nodes) :
                nodes[i].id \in selectedNodes => InsideCanvas(nodes'[i])]_vars

\* C9 amended: after a mousemove of a drag every selected node that is no wider and
\* no taller than the canvas lies inside it; on an axis where the node is larger
\* than the canvas its coordinate is 0.
C9_DraggedNodesClamped ==
    [][\A p \in PointerPositions :
          (lastOp' = "mouseMove" /\ Ready /\ ~readonly /\ Dragging /\ MouseMoveTo(p))
          => \A i \in 1..Len(nodes) :
                nodes[i].id \in selectedNodes
                => LET n == nodes'[i]
                   IN /\ IF n.size.width <= canvas.width
                         THEN 0 <= n.position.x /\ n.position.x <= canvas.width - n.size.width
                         ELSE n.position.x = 0
                      /\ IF n.size.height <= canvas.height
                         THEN 0 <= n.position.y /\ n.position.y <= canvas.height - n.size.height
                         ELSE n.position.y = 0]_vars

\* C9 witness: a drag whose pointer left the canvas stopped a node at the right and
\* bottom edges.
C9_Witness ==
    /\ lastOp = "mouseMove"
    /\ \E i \in 1..Len(nodes) :
          /\ nodes[i].id \in selectedNodes
          /\ nodes[i].size.width <= canvas.width
          /\ nodes[i].position.x = canvas.width - nodes[i].size.width
          /\ nodes[i].position.y = canvas.height - nodes[i].size.height

\* C10: a mousedown with the select tool on a point that several nodes contain grabs
\* the last of them in the node list, and without shift selects exactly that node.
C10_LastInsertedWins ==
    [][\A p \in PointerPositions, shiftKey \in BOOLEAN :
          (/\ lastOp' = "mouseDown"
           /\ Ready /\ ~readonly /\ tool = "select"
           /\ Cardinality(HitBy(p)) >= 2
           /\ MouseDownAt(p, shiftKey))
          => /\ dragState'.nodeId = nodes[Max(HitBy(p))].id
             /\ ~shiftKey => selectedNodes' = {nodes[Max(HitBy(p))].id}]_vars

----------------------------------------------------------------------------
\* C11: the ids of the node list are pairwise distinct.
C11_NodeIdsDistinct == Cardinality(NodeIds(nodes)) = Len(nodes)

\* C12: a second instance constructed with the arrays the first instance reported
\* last starts with no report made, and the first report it makes carries exactly
\* the arrays it was given.
C12_RoundTrip ==
    [][/\ (lastOp' = "remount" /\ lastOp # "remount")
            => initialData' = reported[1] /\ reported' = <<>>
       /\ (lastOp = "remount" /\ reported = <<>> /\ reported' # <<>>)
            => reported' = <<initialData>>]_vars

\* C12 witness: the second instance was given two nodes and the connection between
\* them, and has reported.
C12_Witness ==
    /\ lastOp = "remount"
    /\ Len(initialData.nodes) = 2
    /\ Len(initialData.connections) = 1
    /\ reported # <<>>

----------------------------------------------------------------------------
\* The displacement (in half units) of a control point from its endpoint.
DisplacementTwice(cpTwice, p) == Abs(cpTwice.x - 2 * p.x) + Abs(cpTwice.y - 2 * p.y)
PathDrawn == call.fn = "generateBezierPath" /\ call.applied
PathDrawnBetween(x1, y1, x2, y2, scaleTenths) ==
    /\ PathDrawn
    /\ call.from = [x |-> x1, y |-> y1] /\ call.to = [x |-> x2, y |-> y2]
    /\ call.scaleTenths = scaleTenths

AnchorResolved == call.fn = "getConnectionPointPosition" /\ call.applied
C14_AnchorOnSide ==
    (AnchorResolved /\ call.pointId # <<"nonexistent">>) =>
        LET side == call.pointId[1]
            o == call.node.connectionPoints[1].offset
            x == call.node.position.x
            y == call.node.position.y
            w == call.node.size.width
            h == call.node.size.height
            rx == call.result.x
            ry == call.result.y
            example == /\ call.node.position = [x |-> 10, y |-> 20]
                       /\ call.node.size = [width |-> 100, height |-> 40]
                       /\ o = [num |-> 1, den |-> 2]
        IN /\ side = "top"    => o.den * (rx - x) = w * o.num /\ ry = y
           /\ side = "bottom" => o.den * (rx - x) = w * o.num /\ ry = y + h
           /\ side = "left"   => rx = x /\ o.den * (ry - y) = h * o.num
           /\ side = "right"  => rx = x + w /\ o.den * (ry - y) = h * o.num
           /\ (example /\ side = "top")    => call.result = [x |-> 60, y |-> 20]
           /\ (example /\ side = "bottom") => call.result = [x |-> 60, y |-> 60]
           /\ (example /\ side = "left")   => call.result = [x |-> 10, y |-> 40]
           /\ (example /\ side = "right")  => call.result = [x |-> 110, y |-> 40]

\* C14 witness: the bottom point at offset 1/4 of the node at (10,20), size (100,40).
C14_Witness ==
    /\ AnchorResolved
    /\ call.pointId = <<"bottom", "p">>
    /\ call.node.position = [x |-> 10, y |-> 20]
    /\ call.node.size = [width |-> 100, height |-> 40]
    /\ call.result = [x |-> 35, y |-> 60]

\* C15: a point id that is not among the node's connection points resolves to the
\* node's position.
C15_UnknownPointFallsBack ==
    (/\ AnchorResolved
     /\ \A i \in 1..Len(call.node.connectionPoints) :
           call.node.connectionPoints[i].id # call.pointId)
    => call.result = call.node.position

\* C15 witness: an unknown id was resolved on a node that is not at the origin.
C15_Witness ==
    /\ AnchorResolved
    /\ call.pointId = <<"nonexistent">>
    /\ call.node.position = [x |-> 300, y |-> 50]
    /\ call.result = [x |-> 300, y |-> 50]

----------------------------------------------------------------------------
\* Vocabulary of the store properties.
MainRecordCorrupt(id) ==
    MainKey(id) \in DOMAIN localStorage /\ ~localStorage[MainKey(id)].parses
BackupsOf(storage, id) == {k \in DOMAIN storage : k.kind = "slider_backup_" /\ k.id = id}

\* C16: when the main record of a saved presentation holds corrupt text,
\* loadPresentation of its id returns success with recovered set and data that has
\* the structure of a presentation.
C16_CorruptMainRecovered ==
    [][\A id \in StoreIds :
          (MainRecordCorrupt(id) /\ LoadPresentationOf(id))
          => /\ outcome'.result.success
             /\ outcome'.result.recovered
             /\ validatePresentationData(outcome'.result.data)]_vars

\* C17: when the data of the main record was altered and its structure and stored
\* checksum were not, the loadPresentation that follows returns no success and an
\* error that reports corruption.
C17_TamperingReported ==
    [][\A id \in StoreIds :
          (outcome = [op |-> "tamper", id |-> id] /\ LoadPresentationOf(id))
          => /\ ~outcome'.result.success
             /\ outcome'.result.error = "Data corruption detected and recovery failed"]_vars

\* C18: after a manual save every presentation id owns at most MAX_BACKUPS backup
\* records, and every backup of an id that the save removed (the one it created
\* included) is older than every backup of that id that is kept.
C18_NewestBackupsKept ==
    [][\A id \in BackupIds :
          LET kept == BackupsOf(localStorage', id)
              before == BackupsOf(localStorage, id)
                        \cup (IF localStorage' # localStorage
                                 /\ outcome'.op = "savePresentation" /\ outcome'.id = id
                                 /\ outcome'.result.success /\ outcome'.result.backupCreated
                              THEN {BackupKey(id, now)} ELSE {})
          IN /\ Cardinality(kept) <= MAX_BACKUPS
             /\ kept \subseteq before
             /\ \A k \in kept, r \in before \ kept : r.timestamp < k.timestamp]_vars

\* C18 witness: the first id owns MAX_BACKUPS backups and the oldest one it ever
\* had, made in millisecond 0, is no longer among them.
C18_Witness ==
    /\ outcome.op = "savePresentation"
    /\ Cardinality(BackupsOf(localStorage, DeckId)) = MAX_BACKUPS
    /\ BackupKey(DeckId, 0) \notin DOMAIN localStorage
    /\ BackupKey(DeckId, 1) \in DOMAIN localStorage
    /\ BackupKey(DeckId, 11) \notin DOMAIN localStorage

----------------------------------------------------------------------------
\* C19: the history holds between 1 and maxHistorySize (50 for the host) entries
\* and currentIndex is an index of it; undo returns null exactly when currentIndex
\* is 0 and redo returns null exactly when currentIndex is the last index.
C19_HistoryWithinBounds ==
    /\ [](/\ 1 <= Len(history) /\ Len(history) <= maxHistorySize
          /\ 0 <= currentIndex /\ currentIndex < Len(history))
    /\ [][/\ Undo => (returned'.value = <<>> <=> currentIndex = 0)
          /\ Redo => (returned'.value = <<>> <=> currentIndex = Len(history) - 1)]_vars

\* C19 witness: the host's history is full, the initial entry has been dropped, and
\* a redo at the last index has returned null.
C19_Witness ==
    /\ maxHistorySize = HostHistorySize
    /\ Len(history) = HostHistorySize
    /\ currentIndex = HostHistorySize - 1
    /\ history[1].action # "Initial state"
    /\ returned = [by |-> "redo", value |-> <<>>]

----------------------------------------------------------------------------
\* C20: a recorded pending source stays recorded and unchanged over every step,
\* except the step that completes the connection from it on another node.
C20_PendingUntilCompleted ==
    [][Pending =>
          \/ Pending' /\ dragState'.fromPoint = dragState.fromPoint
          \/ /\ Len(connections') = Len(connections) + 1
             /\ LastConnection(connections').from = dragState.fromPoint[1]
             /\ LastConnection(connections').to.nodeId # dragState.fromPoint[1].nodeId]_vars

----------------------------------------------------------------------------
\* Pointer gestures on the chain graph with the select tool: presses and drags, with
\* pointer positions that grab a node off the grid and reach the canvas corner.
\* Where the button goes down: (57,63) lies on the start node, 7 right of and 13
\* below its corner; (310,60) lies on the process node.
PressPointers == {<<57, 63>>, <<310, 60>>}

\* Where the pointer is moved to: onto the process node's place, and next to the
\* bottom-right corner of the canvas.
MovePointers == {<<310, 60>>, <<790, 590>>}

InitGestures == Mount(Props(FALSE, TRUE, DefaultCanvas, ChainGraph))

GestureDown ==
    /\ Ready
    /\ \E p \in PressPointers, shiftKey \in BOOLEAN : MouseDownAt(p, shiftKey)

GestureMove ==
    /\ Ready
    /\ \E p \in MovePointers : MouseMoveTo(p)

NextGestures ==
    \/ RunEffect
    \/ GestureDown
    \/ GestureMove
    \/ MouseUp
    \/ DeleteKey

SpecGestures == InitGestures /\ [][NextGestures]_vars

SelectedIndexes == {i \in 1..Len(nodes) : nodes[i].id \in selectedNodes}

\* C21: during a drag of two or more selected nodes, a mousemove leaves the position
\* difference between any two selected nodes as it was before the move (hence as
\* it was when the drag started), also when the pointer is at a canvas edge.
C21_RelativeOffsetsPreserved ==
    [][(/\ lastOp' = "mouseMove"
        /\ Dragging
        /\ Cardinality(SelectedIndexes) >= 2)
       => \A i, j \in SelectedIndexes :
             /\ nodes'[i].position.x - nodes'[j].position.x
                    = nodes[i].position.x - nodes[j].position.x
             /\ nodes'[i].position.y - nodes'[j].position.y
                    = nodes[i].position.y - nodes[j].position.y]_vars

\* C22: with the select tool, a mousedown on a node without shift makes the selection
\* exactly that node when it was not selected and leaves the selection as it was
\* when the node was selected already; with shift it toggles that node's membership
\* and keeps every other selected node.
C22_MouseDownSelects ==
    [][lastOp' = "mouseDown" =>
        \A p \in PressPointers, shiftKey \in BOOLEAN :
            LET i == clickedNode(nodes, p[1], p[2])
            IN (/\ ~readonly
                /\ tool = "select"
                /\ i # 0
                /\ MouseDownAt(p, shiftKey))
               => selectedNodes' =
                     IF shiftKey THEN toggleSelected(selectedNodes, nodes[i].id)
                     ELSE IF nodes[i].id \in selectedNodes THEN selectedNodes
                     ELSE {nodes[i].id}]_vars

\* C23: whenever a drag is in progress (dragState.nodeId is not null) the grabbed
\* node is in the node list and is a member of selectedNodes.
C23_GrabbedNodeSelected ==
    dragState.nodeId # Null =>
        /\ dragState.nodeId \in NodeIds(nodes)
        /\ dragState.nodeId \in selectedNodes

\* C24: whenever a connection is pending, the node of its source point is in the
\* node list.
C24_PendingSourceExists ==
    Pending => dragState.fromPoint[1].nodeId \in NodeIds(nodes)

OnGrid(v) == v % (GridPitch * scale) = 0

\* C26: with the grid shown, after a mousemove of a drag each coordinate of every
\* moved node is a multiple of the grid pitch or equal to one of its clamp bounds.
C26_DraggedNodesOnGrid ==
    [][(lastOp' = "mouseMove" /\ Dragging)
       => \A i \in SelectedIndexes :
             /\ \/ OnGrid(nodes'[i].position.x)
                \/ nodes'[i].position.x \in {0, canvas.width - nodes[i].size.width}
             /\ \/ OnGrid(nodes'[i].position.y)
                \/ nodes'[i].position.y \in {0, canvas.height - nodes[i].size.height}]_vars

----------------------------------------------------------------------------
\* The diagram as the slide deck embeds it (SlideDeckProfessional, element type
\* flowDiagram).  The host keeps the presentation in a useState cell and an undo
\* history of it; it renders the diagram with an onChange written inline, which is
\* a new function at every render of the host.
HostCanvas == [width |-> 600, height |-> 400]

\* { ...presentation, ...updates, updatedAt: new Date() } with the element's arrays
\* replaced by the reported ones.
newPresentation(element, t) ==
    [slides |-> 1, element |-> element, updatedAt |-> [type |-> "Date", at |-> t]]

\* updateElement -> updateSlide -> updatePresentation: setPresentation(newPresentation)
\* and pushState(newPresentation, 'Update presentation').  The setCurrentIndex of
\* pushState and the setPresentation are committed by the same render of the host.
updatePresentation(h, element, t) ==
    pushState(h, newPresentation(element, t), "Update presentation", t)

InitEmbedded ==
    /\ readonly = FALSE
    /\ onChange = TRUE
    /\ canvas = HostCanvas
    /\ initialData \in InitialGraphs
    /\ nodes = initialData.nodes
    /\ connections = initialData.connections
    /\ selectedNodes = {}
    /\ selectedConnection = Null
    /\ tool = "select"
    /\ dragState = IdleDrag
    /\ effectPending = TRUE
    /\ reported = <<>>
    /\ now = 0
    /\ lastOp = "mount"
    /\ GeometryIdle /\ StorageIdle
    /\ maxHistorySize = HostHistorySize
    /\ history = <<HistoryState(newPresentation(initialData, now), now, "Initial state")>>
    /\ currentIndex = 0
    /\ queuedIndex = <<>>
    /\ returned = [by |-> "none", value |-> <<>>]

ApplyEmbedded(s, h, op) ==
    /\ nodes' = s.nodes
    /\ connections' = s.connections
    /\ selectedNodes' = s.selectedNodes
    /\ selectedConnection' = s.selectedConnection
    /\ tool' = s.tool
    /\ dragState' = s.dragState
    /\ readonly' = s.readonly
    /\ canvas' = s.canvas
    /\ onChange' = s.onChange
    /\ initialData' = s.initialData
    /\ effectPending' = s.effectPending
    /\ reported' = s.reported
    /\ lastOp' = op
    /\ history' = h.history
    /\ currentIndex' = h.currentIndex
    /\ queuedIndex' = h.queuedIndex
    /\ maxHistorySize' = h.maxHistorySize
    /\ returned' = h.returned
    /\ UNCHANGED <<now, geometryVars, storageVars>>

\* The diagram's onChange effect runs and calls the host's callback.
OnChangeEffect ==
    /\ effectPending
    /\ LET s == notifyParent(Cur)
       IN ApplyEmbedded(s, updatePresentation(Hook, s.reported[1], now), "onChange")

\* The host renders with the presentation it has set: the element's arrays become
\* the diagram's initialNodes / initialConnections, and the diagram receives a new
\* onChange, a changed dependency of its effect.
HostRender ==
    /\ ~effectPending
    /\ queuedIndex # <<>>
    /\ ApplyEmbedded([Cur EXCEPT !.initialData = reported[1], !.effectPending = TRUE],
                     [Hook EXCEPT !.currentIndex = queuedIndex[1], !.queuedIndex = <<>>],
                     "hostRender")

NextEmbedded == OnChangeEffect \/ HostRender

\* React runs a scheduled effect and a scheduled render; neither waits for input.
SpecEmbedded ==
    /\ InitEmbedded
    /\ [][NextEmbedded]_vars
    /\ WF_vars(OnChangeEffect)
    /\ WF_vars(HostRender)

Quiescent == ~effectPending /\ queuedIndex = <<>>

\* C25: embedded by the slide deck and left without user input, the system comes to
\* rest: from some point on no onChange effect is scheduled and no host render is
\* due, so onChange has been invoked only finitely many times.
C25_ReachesQuiescence == <>[]Quiescent

----------------------------------------------------------------------------
\* Connect gestures on the chain graph: clicks on connection points with either
\* tool, until the connection list holds MaxGestureConns connections.
MaxGestureConns == 3

GestureClick ==
    /\ Ready
    /\ Len(connections) < MaxGestureConns
    /\ \E i \in 1..Len(nodes), pointId \in ClickPoints :
          Apply(handleConnectionPointClick(Cur, nodes[i].id, pointId, now), "pointClick")

NextConnect ==
    \/ RunEffect
    \/ SetTool
    \/ GestureClick
    \/ MouseUp

SpecConnect == InitGestures /\ [][NextConnect]_vars

\* C27: no two connections of the list have the same from and the same to; a
\* connect gesture that repeats an existing connection adds nothing.
C27_NoDuplicateConnection ==
    \A i, j \in 1..Len(connections) :
        (connections[i].from = connections[j].from /\ connections[i].to = connections[j].to)
            => i = j

----------------------------------------------------------------------------
\* C28: dragging and connecting exclude each other: a grabbed node (dragState.nodeId
\* not null) implies isConnecting is false, and isConnecting implies that a source
\* point is recorded and that no node is grabbed.
C28_DragAndConnectExclusive ==
    /\ dragState.nodeId # Null => ~dragState.isConnecting
    /\ dragState.isConnecting => (dragState.fromPoint # <<>> /\ dragState.nodeId = Null)

\* A mousedown has grabbed a node after a connection had been made with the connect
\* tool: the drag state holds the grabbed node and nothing of a connect gesture.
C28_Witness ==
    /\ lastOp = "mouseDown"
    /\ dragState.nodeId # Null
    /\ ~dragState.isConnecting
    /\ dragState.fromPoint = <<>>
    /\ \E i \in 1..Len(connections) : connections[i].id = ConnId(now)

\* C29: a mousemove of a drag changes the position of selected nodes and nothing
\* else: every other field of every node, every unselected node, the length and
\* order of the node list, the connection list and the rest of the editor state.
C29_DragMovesPositionsOnly ==
    [][(lastOp' = "mouseMove" /\ Dragging)
       => /\ Len(nodes') = Len(nodes)
          /\ \A i \in 1..Len(nodes) :
                /\ nodes'[i] = [nodes[i] EXCEPT !.position = nodes'[i].position]
                /\ nodes[i].id \notin selectedNodes => nodes'[i] = nodes[i]
          /\ connections' = connections
          /\ UNCHANGED <<selectedNodes, selectedConnection, tool, dragState>>]_vars

\* A drag has moved a selected node of the chain graph while another node of the
\* list is not selected.
C29_Witness ==
    /\ lastOp = "mouseMove"
    /\ Dragging
    /\ Len(nodes) = Len(ChainGraph.nodes)
    /\ \E i \in SelectedIndexes : nodes[i].position # ChainGraph.nodes[i].position
    /\ \E j \in 1..Len(nodes) : j \notin SelectedIndexes

----------------------------------------------------------------------------
\* The last call of undo() or redo() was an undo that returned an entry.
Undone == returned.by = "undo" /\ returned.value # <<>>

\* The hook as the render that follows this step returns it.
HookAfterRender ==
    [history |-> history',
     currentIndex |-> IF queuedIndex' = <<>> THEN currentIndex' ELSE queuedIndex'[1],
     queuedIndex |-> <<>>,
     maxHistorySize |-> maxHistorySize',
     returned |-> returned']

\* What C30 says of the step pushState(newState), with the current entry compared
\* with `copy`.
PushDiscardsRedo(newState, copy) ==
    LET h == HookAfterRender
    IN /\ ~(h.currentIndex < Len(h.history) - 1)
       /\ redo(h).returned.value = <<>>
       /\ h.history[h.currentIndex + 1].state = copy
       /\ undo(h).returned.value = <<history[currentIndex + 1]>>

====
